---- MODULE Spec2Model ----
(***************************************************************************)
(* The session memory store of the lecture summariser (src/main.py):       *)
(* the module-level dict lecture_memory and the four /memory endpoints     *)
(* add_to_memory, get_memory, remove_from_memory and clear_memory.         *)
(*                                                                         *)
(* Text is modelled as a sequence of one-character strings, so that        *)
(* str.strip, len, slicing, f-string formatting and "\n".join are          *)
(* computed character by character as Python computes them.                *)
(*                                                                         *)
(* An optional value (a cookie that may be missing, a JSON key that may be *)
(* absent from the request body) is a sequence of length 0 or 1.           *)
(*                                                                         *)
(* Every handler is an "async def" that runs on the single event loop.     *)
(* add_to_memory has one suspension point, "await request.json()", which   *)
(* comes before its first read of lecture_memory; the other three have     *)
(* none.  Each handler's access to the store is therefore one atomic step. *)
(*                                                                         *)
(* A handler is an operator from the store, the ids uuid4 has handed out   *)
(* and the request to an Outcome: the store it leaves, the ids handed out  *)
(* and the response.  An action applies a handler to the state.            *)
(*                                                                         *)
(* The second part is the summary stream of POST /process_stream: the      *)
(* async generator generate_all_summaries_stream, which yields the events  *)
(* of a run, and safe_stream_wrapper, which asks the generator for one     *)
(* chunk at a time, polls request.is_disconnected() and hands the chunk to *)
(* the client.  The generator's position is the yield it is suspended at.  *)
(***************************************************************************)
EXTENDS Integers, Sequences, FiniteSets, TLC

(***************************************************************************)
(* Bounds of the model.                                                    *)
(***************************************************************************)
\* Sources held by the whole store at any time (add is not offered beyond it).
MaxSources == 2

\* Session ids a client invents itself, and the ids uuid.uuid4() hands out.
\* uuid4 is taken to return an identifier that was never returned before and
\* that no client has guessed: a client can present a minted id only after
\* it was minted.
ClientIds == {"s1"}
UuidPool == {"u1"}

(***************************************************************************)
(* Program constants.                                                      *)
(***************************************************************************)
MinContentLen == 10
PreviewLen == 200

(***************************************************************************)
(* String literals of the source, as character sequences.                  *)
(***************************************************************************)
HeaderOpen == <<"=","=","="," ","S","o","u","r","c","e"," ">>
HeaderSep == <<":"," ">>
LabelSep == <<" ","-"," ">>
HeaderClose == <<" ","=","=","=">>
NL == "\n"
TextInput == <<"T","e","x","t"," ","I","n","p","u","t">>
PDFDocument == <<"P","D","F"," ","D","o","c","u","m","e","n","t">>
AudioTranscription == <<"A","u","d","i","o"," ","T","r","a","n","s","c","r","i","p","t","i","o","n">>
UnknownSource == <<"U","n","k","n","o","w","n"," ","S","o","u","r","c","e">>
Unnamed == <<"U","n","n","a","m","e","d">>
Ellipsis == <<".",".",".">>

\* A source_type that is a JSON array: the one kind of JSON value modelled
\* here that Python cannot hash (dict.get raises TypeError on it).
JsonList == "[]"

(***************************************************************************)
(* Python built-ins used by the handlers.                                  *)
(***************************************************************************)
\* Characters str.strip() removes (those of str.isspace that the inputs use).
Whitespace == {" ", "\t", "\n", "\r"}

RECURSIVE lstrip(_)
lstrip(s) ==
    IF s # <<>> /\ Head(s) \in Whitespace THEN lstrip(Tail(s)) ELSE s

RECURSIVE rstrip(_)
rstrip(s) ==
    IF s # <<>> /\ s[Len(s)] \in Whitespace
    THEN rstrip(SubSeq(s, 1, Len(s) - 1))
    ELSE s

\* A handler that forgets to trim: the text is taken as sent.
strip_none(s) == s

\* str.strip()
strip(s) == rstrip(lstrip(s))

\* str(int) for a non-negative int
Digit(d) == <<"0","1","2","3","4","5","6","7","8","9">>[d + 1]

RECURSIVE IntToStr(_)
IntToStr(n) ==
    IF n < 10 THEN <<Digit(n)>> ELSE IntToStr(n \div 10) \o <<Digit(n % 10)>>

\* "\n".join(parts)
RECURSIVE join(_)
join(parts) ==
    IF parts = <<>> THEN <<>>
    ELSE IF Len(parts) = 1 THEN parts[1]
    ELSE parts[1] \o <<NL>> \o join(Tail(parts))

\* list.pop() without the index: the last element goes.
pop_last(list, index) == SubSeq(list, 1, Len(list) - 1)

\* list.pop(index) for 0 <= index < len: the list that remains (0-based index)
pop(list, index) ==
    SubSeq(list, 1, index) \o SubSeq(list, index + 2, Len(list))

\* dict.get(key, default) on the request body / Optional[...] truthiness
Get(field, default) == IF field = <<>> THEN default ELSE field[1]
Some(v) == <<v>>
None == <<>>
Truthy(opt) == opt # <<>> /\ opt[1] # ""

(***************************************************************************)
(* State.                                                                  *)
(***************************************************************************)
VARIABLES
    lecture_memory,   \* session id -> [sources, combined_text]
    minted,           \* the ids uuid.uuid4() has returned so far
    last,             \* the last request handled: endpoint, HTTP status
                      \* and the sources its session held before it
    knowledge_level,  \* body.get('knowledge_level', 0.0) of the streamed request
    transcript,       \* the text the streamed request handed to the generator
    pc,               \* the yield generate_all_summaries_stream is suspended at
    level,            \* the generator's loop variable
    chunk,            \* the chunk safe_stream_wrapper holds, not yet handed on
    wrapper,          \* where safe_stream_wrapper stands
    disconnected,     \* what request.is_disconnected() answers
    delivered,        \* the events safe_stream_wrapper has yielded to the client
    generated,        \* per tier, the fragments its text_stream has produced
    opened,           \* the messages.stream requests issued, in order
    whisper_mode,     \* transcriber.mode, from config.WHISPER_MODE
    upload_pc,        \* the yield upload_audio_stream's generate() is suspended at
    upload_events,    \* the status events generate() has yielded
    segments,         \* result["segments"] of the local transcription
    segment_i         \* the index of the segment loop

store_vars == <<lecture_memory, minted, last>>
run_vars == <<knowledge_level, transcript, pc, level, chunk, wrapper, disconnected, delivered, generated, opened>>
upload_vars == <<whisper_mode, upload_pc, upload_events, segments, segment_i>>
vars == <<store_vars, run_vars, upload_vars>>

(***************************************************************************)
(* The rebuild of combined_text (the same loop in add_to_memory and in     *)
(* remove_from_memory).                                                    *)
(***************************************************************************)
\* Python can hash every JSON value except an array or an object.
Hashable(v) == v # JsonList

\* {"text": ..., "pdf": ..., "audio": ...}.get(source["type"], "Unknown Source")
type_label(t) ==
    CASE t = "text" -> TextInput
      [] t = "pdf" -> PDFDocument
      [] t = "audio" -> AudioTranscription
      [] OTHER -> UnknownSource

\* f"=== Source {idx}: {type_label} - {source['filename']} ===\n\n{source['text']}\n\n"
source_block(idx, source) ==
    HeaderOpen \o IntToStr(idx) \o HeaderSep \o type_label(source.type)
        \o LabelSep \o source.filename \o HeaderClose
        \o <<NL, NL>> \o source.text \o <<NL, NL>>

\* for idx, source in enumerate(sources, 1): combined_parts.append(...)
combined_parts(sources) ==
    [k \in 1..Len(sources) |-> source_block(k, sources[k])]

\* The loop raises TypeError at the first source whose type cannot be hashed,
\* before combined_text is assigned.
rebuild_raises(sources) ==
    \E k \in 1..Len(sources) : ~Hashable(sources[k].type)

\* add_to_memory's rebuild: "\n".join(combined_parts)
rebuild_on_add(sources) == join(combined_parts(sources))

\* remove_from_memory's rebuild: "\n".join(combined_parts)
rebuild_on_remove(sources) == join(combined_parts(sources))

\* text[:200] + "..." if len(text) > 200 else text
preview(text) ==
    IF Len(text) > PreviewLen THEN SubSeq(text, 1, PreviewLen) \o Ellipsis ELSE text

\* The dict stored for one source.  Its "timestamp" (datetime.now()) is read
\* by no handler and is left out.
source_entry(source_type, filename, text) ==
    [type |-> source_type, filename |-> filename, text |-> text,
     preview |-> preview(text)]

\* {"sources": [], "combined_text": ""}
EmptyMemory == [sources |-> <<>>, combined_text |-> <<>>]

(***************************************************************************)
(* Requests.                                                               *)
(***************************************************************************)
Core9 == <<"a","b","c","d","e","f","g","h","i">>
Core10 == <<"a","b","c","d","e","f","g","h","i","j">>
Core11 == <<"l","o","r","e","m"," ","i","p","s","u","m">>
FilePdf == <<"a",".","p","d","f">>
FileV == <<"v">>

\* The JSON body of POST /memory/add: each key present (Some) or absent (None).
Body(text, source_type, filename, session_id) ==
    [text |-> text, source_type |-> source_type, filename |-> filename,
     session_id |-> session_id]

\* The contents sent, as <<text, source_type, filename>>: texts of 9, 10 and
\* 11 characters after trimming, with and without surrounding whitespace, of
\* every kind, and a body without text.
PlainContent == <<Some(<<" ">> \o Core10 \o <<NL>>), None, None>>
ArrayContent == <<Some(Core10), Some(JsonList), None>>
ShortContent == <<Some(<<" ">> \o Core9), Some("text"), None>>

Contents ==
    { PlainContent,
      <<Some(Core11), Some("pdf"), Some(FilePdf)>>,
      <<Some(Core10), Some("audio"), Some(<<>>)>>,
      <<Some(Core10 \o <<"\t">>), Some("video"), Some(FileV)>>,
      ArrayContent,
      ShortContent,
      <<None, None, None>> }

\* The ids a client can present: one it invented or one it was given.
KnownIds(uuids) == ClientIds \cup uuids
Cookies(uuids) == {None, Some("")} \cup {Some(i) : i \in KnownIds(uuids)}

\* The <<cookie, body session_id>> pairs sent to /memory/add.  The browser's
\* way: no id at all, or the cookie alone.
CookieIds(uuids) ==
    {<<None, None>>} \cup {<<Some(i), None>> : i \in KnownIds(uuids)}

\* The other ways: an empty cookie, the id in the body, or a cookie and a
\* body that name different sessions.
OtherIds(uuids) ==
    {<<Some(""), None>>}
        \cup {<<None, Some(i)>> : i \in KnownIds(uuids)}
        \cup ({<<Some(i), Some(j)>> : i, j \in KnownIds(uuids)}
                 \ {<<Some(i), Some(i)>> : i \in KnownIds(uuids)})

\* The index path parameter of /memory/remove/{index} (FastAPI admits ints only).
Indexes == -1..MaxSources

\* len(sources) summed over the store
RECURSIVE SumSources(_, _)
SumSources(memory, ids) ==
    IF ids = {} THEN 0
    ELSE LET i == CHOOSE i \in ids : TRUE
         IN Len(memory[i].sources) + SumSources(memory, ids \ {i})

TotalSources(memory) == SumSources(memory, DOMAIN memory)

(***************************************************************************)
(* Responses.                                                              *)
(***************************************************************************)
\* The JSON a handler answers with: the HTTP status and the fields the four
\* endpoints return (a field an endpoint does not return is left empty).
Response(status, session_id, source_count, length, source, sources, text) ==
    [status |-> status, session_id |-> session_id,
     source_count |-> source_count, combined_length |-> length,
     source |-> source, sources |-> sources, combined_text |-> text]

\* raise HTTPException(status_code=status, ...)
HTTPException(status) == Response(status, None, 0, 0, <<>>, <<>>, <<>>)

\* What a handler leaves behind.
Outcome(memory, uuids, response) ==
    [memory |-> memory, minted |-> uuids, response |-> response]

(***************************************************************************)
(* POST /memory/add                                                        *)
(***************************************************************************)
\* The session id the request supplies: the cookie, else the body's
\* session_id; None when both are missing or empty.
supplied_session_id(cookie, body) ==
    IF Truthy(cookie) THEN cookie
    ELSE IF Truthy(body.session_id) THEN body.session_id
    ELSE None

\* str(uuid.uuid4())
uuid4(uuids) == CHOOSE u \in UuidPool \ uuids : TRUE

\* The initialisation without its "not in" test: the memory is reset each time.
init_memory_always(memory, session_id) ==
    [i \in DOMAIN memory \cup {session_id} |->
        IF i = session_id THEN EmptyMemory ELSE memory[i]]

\* if session_id not in lecture_memory: lecture_memory[session_id] = {...}
init_memory(memory, session_id) ==
    [i \in DOMAIN memory \cup {session_id} |->
        IF i \in DOMAIN memory THEN memory[i] ELSE EmptyMemory]

\* sources.insert(0, source_entry) in place of append
append_source_front(memory, session_id, entry) ==
    [memory EXCEPT ![session_id].sources = <<entry>> \o @]

\* lecture_memory[session_id]["sources"].append(source_entry)
append_source(memory, session_id, entry) ==
    [memory EXCEPT ![session_id].sources = Append(@, entry)]

add_to_memory(memory, uuids, cookie, body) ==
    LET text == strip(Get(body.text, <<>>))
        source_type == Get(body.source_type, "text")
        filename == Get(body.filename, Unnamed)
        supplied == supplied_session_id(cookie, body)
        session_id == IF supplied = None THEN uuid4(uuids) ELSE supplied[1]
        uuids2 == IF supplied = None THEN uuids \cup {session_id} ELSE uuids
        entry == source_entry(source_type, filename, text)
        appended == append_source(init_memory(memory, session_id),
                                  session_id, entry)
        sources == appended[session_id].sources
        combined == rebuild_on_add(sources)
    IN
    IF text = <<>> \/ Len(text) < MinContentLen
    THEN \* HTTPException(400), raised before the store is touched
         Outcome(memory, uuids, HTTPException(400))
    ELSE IF rebuild_raises(sources)
    THEN \* TypeError in the rebuild loop, after the append: caught by
         \* "except Exception" and answered with 500
         Outcome(appended, uuids2, HTTPException(500))
    ELSE Outcome([appended EXCEPT ![session_id].combined_text = combined],
                 uuids2,
                 Response(200, Some(session_id), Len(sources), Len(combined),
                          <<entry>>, <<>>, <<>>))

(***************************************************************************)
(* GET /memory/get                                                         *)
(***************************************************************************)
\* A get that answers 404 for a session it does not know.
get_memory_404(memory, uuids, cookie) ==
    IF ~Truthy(cookie) \/ cookie[1] \notin DOMAIN memory
    THEN Outcome(memory, uuids, HTTPException(404))
    ELSE Outcome(memory, uuids,
                 Response(200, None, Len(memory[cookie[1]].sources), 0, <<>>,
                          memory[cookie[1]].sources,
                          memory[cookie[1]].combined_text))

\* A get that creates the entry of a session it does not know.
get_memory_creates(memory, uuids, cookie) ==
    IF ~Truthy(cookie)
    THEN Outcome(memory, uuids, Response(200, None, 0, 0, <<>>, <<>>, <<>>))
    ELSE Outcome(init_memory(memory, cookie[1]), uuids,
                 Response(200, None,
                          Len(init_memory(memory, cookie[1])[cookie[1]].sources),
                          0, <<>>,
                          init_memory(memory, cookie[1])[cookie[1]].sources,
                          init_memory(memory, cookie[1])[cookie[1]].combined_text))

get_memory(memory, uuids, cookie) ==
    IF ~Truthy(cookie) \/ cookie[1] \notin DOMAIN memory
    THEN Outcome(memory, uuids, Response(200, None, 0, 0, <<>>, <<>>, <<>>))
    ELSE Outcome(memory, uuids,
                 Response(200, None, Len(memory[cookie[1]].sources), 0, <<>>,
                          memory[cookie[1]].sources,
                          memory[cookie[1]].combined_text))

(***************************************************************************)
(* DELETE /memory/remove/{index}                                           *)
(***************************************************************************)
remove_from_memory(memory, uuids, cookie, index) ==
    IF ~Truthy(cookie) \/ cookie[1] \notin DOMAIN memory
    THEN \* HTTPException(404, "No session found")
         Outcome(memory, uuids, HTTPException(404))
    ELSE
      LET session_id == cookie[1]
          removed_source == memory[session_id].sources[index + 1]
          sources == pop(memory[session_id].sources, index)
          combined == rebuild_on_remove(sources)
      IN
      IF index < 0 \/ index >= Len(memory[session_id].sources)
      THEN \* HTTPException(400, "Invalid source index")
           Outcome(memory, uuids, HTTPException(400))
      ELSE IF rebuild_raises(sources)
      THEN \* TypeError in the rebuild loop, after the pop: answered with 500
           Outcome([memory EXCEPT ![session_id].sources = sources], uuids,
                   HTTPException(500))
      ELSE Outcome([memory EXCEPT ![session_id] =
                        [sources |-> sources, combined_text |-> combined]],
                   uuids,
                   Response(200, None, Len(sources), Len(combined),
                            <<removed_source>>, <<>>, <<>>))

(***************************************************************************)
(* DELETE /memory/clear                                                    *)
(***************************************************************************)
\* A clear that empties combined_text and keeps the entry and its sources.
clear_memory_keeps_sources(memory, uuids, cookie) ==
    IF Truthy(cookie) /\ cookie[1] \in DOMAIN memory
    THEN Outcome([memory EXCEPT ![cookie[1]].combined_text = <<>>], uuids,
                 Response(200, None, 0, 0, <<>>, <<>>, <<>>))
    ELSE Outcome(memory, uuids, Response(200, None, 0, 0, <<>>, <<>>, <<>>))

\* A clear that empties the whole store: lecture_memory.clear().
clear_memory_all(memory, uuids, cookie) ==
    IF Truthy(cookie) /\ cookie[1] \in DOMAIN memory
    THEN Outcome([i \in {} |-> memory[i]], uuids,
                 Response(200, None, 0, 0, <<>>, <<>>, <<>>))
    ELSE Outcome(memory, uuids, Response(200, None, 0, 0, <<>>, <<>>, <<>>))

\* A clear that answers 404 for a session it does not know.
clear_memory_404(memory, uuids, cookie) ==
    IF Truthy(cookie) /\ cookie[1] \in DOMAIN memory
    THEN Outcome([i \in DOMAIN memory \ {cookie[1]} |-> memory[i]], uuids,
                 Response(200, None, 0, 0, <<>>, <<>>, <<>>))
    ELSE Outcome(memory, uuids, HTTPException(404))

clear_memory(memory, uuids, cookie) ==
    IF Truthy(cookie) /\ cookie[1] \in DOMAIN memory
    THEN \* del lecture_memory[session_id]
         Outcome([i \in DOMAIN memory \ {cookie[1]} |-> memory[i]], uuids,
                 Response(200, None, 0, 0, <<>>, <<>>, <<>>))
    ELSE Outcome(memory, uuids, Response(200, None, 0, 0, <<>>, <<>>, <<>>))

(***************************************************************************)
(* The store under any sequence of requests.                               *)
(***************************************************************************)
\* The tiers of level_descriptions, and the value a JSON number takes in the
\* model: hundredths, so that 0.4 is Number(40).  JsonNull is a JSON null.
Tiers == 0..4

\* The indices level_descriptions[level] accepts: a negative index counts
\* from the end of the list.
Levels == -5..4
Number(n) == [number |-> TRUE, hundredths |-> n]
JsonNull == [number |-> FALSE, hundredths |-> 0]

\* No /process_stream request has been answered with a stream.
NoRun ==
    /\ knowledge_level = Number(0)
    /\ transcript = <<>>
    /\ pc = "idle"
    /\ level = 0
    /\ chunk = None
    /\ wrapper = "idle"
    /\ disconnected = FALSE
    /\ delivered = <<>>
    /\ generated = [t \in Levels |-> <<>>]
    /\ opened = <<>>

\* No /upload_audio_stream request has been received.
NoUpload ==
    /\ upload_pc = "idle"
    /\ upload_events = <<>>
    /\ segments = <<>>
    /\ segment_i = 0

Init ==
    /\ lecture_memory = [i \in {} |-> EmptyMemory]
    /\ minted = {}
    /\ last = [op |-> "none", status |-> 0, held |-> 0]
    /\ NoRun
    /\ NoUpload
    /\ whisper_mode = "api"

\* len(sources) of the session a request addresses, 0 when there is none.
Held(memory, session) ==
    IF Truthy(session) /\ session[1] \in DOMAIN memory
    THEN Len(memory[session[1]].sources)
    ELSE 0

\* The state after a handler has answered a request whose cookie named
\* session (None for an add, which may take its session from the body or
\* mint one).
Handled(op, session, out) ==
    /\ lecture_memory' = out.memory
    /\ minted' = out.minted
    /\ last' = [op |-> op, status |-> out.response.status,
                held |-> Held(lecture_memory, session)]
    /\ UNCHANGED <<run_vars, upload_vars>>

\* The add requests offered: one without a session id only while uuid4 has
\* an unused id left.
AddRequests(uuids) ==
    {r \in (CookieIds(uuids) \X Contents)
              \cup (OtherIds(uuids) \X {PlainContent, ArrayContent, ShortContent}) :
        LET body == Body(r[2][1], r[2][2], r[2][3], r[1][2])
        IN supplied_session_id(r[1][1], body) = None => uuids # UuidPool}

AddBody(r) == Body(r[2][1], r[2][2], r[2][3], r[1][2])
AddCookie(r) == r[1][1]

Add ==
    /\ TotalSources(lecture_memory) < MaxSources
    /\ \E r \in AddRequests(minted) :
          Handled("add", None,
                  add_to_memory(lecture_memory, minted,
                                AddCookie(r), AddBody(r)))

GetMem ==
    \E cookie \in Cookies(minted) :
        Handled("get", cookie, get_memory(lecture_memory, minted, cookie))

Remove ==
    \E cookie \in Cookies(minted), index \in Indexes :
        Handled("remove", cookie,
                remove_from_memory(lecture_memory, minted, cookie, index))

Clear ==
    \E cookie \in Cookies(minted) :
        Handled("clear", cookie,
                clear_memory(lecture_memory, minted, cookie))

Next == Add \/ GetMem \/ Remove \/ Clear

Spec == Init /\ [][Next]_vars

\* The same behaviours under a second name, for the properties of how
\* /memory/add places a source.
SpecAdd == Init /\ [][Next]_vars

\* And a third name, for what the endpoints leave alone.
SpecFrame == Init /\ [][Next]_vars

(***************************************************************************)
(* POST /process_stream.                                                   *)
(***************************************************************************)
\* Fragments one tier's text_stream produces at most.
MaxFragments == 2

\* len(transcript.strip()) a streamed request needs.
MinTranscriptLen == 50

\* The events a run yields, as the dict json.dumps serialises: a key the dict
\* does not have is None.
Event(type, lvl, text, message) ==
    [type |-> type, level |-> lvl, text |-> text, message |-> message]

StreamStarted == "Stream started"
test_event == Event("test", None, None, Some(StreamStarted))

level_start_event_next(lvl) == Event("level_start", Some(lvl + 1), None, None)
level_start_event(lvl) == Event("level_start", Some(lvl), None, None)

content_event_relabelled(lvl, text) == Event("content", Some(lvl + 1), Some(text), None)
content_event(lvl, text) == Event("content", Some(lvl), Some(text), None)

complete_event_progress == Event("progress", None, None, None)
complete_event == Event("complete", None, None, None)

\* The event of the generator's "except Exception": type and message only.
error_event(message) == Event("error", None, None, Some(message))

\* What str(e) is for the exceptions of a run.
TypeError == "unsupported operand type(s) for *: 'NoneType' and 'int'"
IndexError == "list index out of range"
APIError == "Connection error."

\* int(x) for x = fifths / 100: truncation towards zero.
int(fifths) ==
    IF fifths >= 0 THEN fifths \div 100 ELSE -((-fifths) \div 100)

min(a, b) == IF a <= b THEN a ELSE b

\* start_level = min(4, int(knowledge_level * 5)), for a number.
start_level_uncapped(kl) == int(kl.hundredths * 5)
start_level(kl) == min(4, int(kl.hundredths * 5))

\* knowledge_level * 5 raises TypeError for a JSON null.
start_level_raises(kl) == ~kl.number

\* level_descriptions[level] raises IndexError outside -5..4.
level_info_raises(lvl) == lvl < -5 \/ lvl > 4

\* The n-th fragment the model's text_stream produces for a tier: fragments
\* differ from one another, within a tier and between tiers.
Fragment(lvl, n) ==
    <<"t", IF lvl < 0 THEN <<"-">> \o IntToStr(-lvl) ELSE IntToStr(lvl), ".", IntToStr(n)>>

\* The JSON body of POST /process_stream; language only selects the prompt's
\* wording and is left out.
StreamBody(use_memory, text, kl, session_id) ==
    [use_memory |-> use_memory, transcript |-> text,
     knowledge_level |-> kl, session_id |-> session_id]

\* The handler's answer: the status and, for a stream, what the run was given.
StreamingResponse_stripped(text, kl) ==
    [status |-> 200, transcript |-> strip(text), knowledge_level |-> kl]

StreamingResponse(text, kl) ==
    [status |-> 200, transcript |-> text, knowledge_level |-> kl]

\* An HTTPException raised inside the handler's try block is caught by its
\* "except Exception" and raised again with status 500.
Reraised == [status |-> 500, transcript |-> <<>>, knowledge_level |-> Number(0)]

too_short(text) ==
    text = <<>> \/ Len(strip(text)) < MinTranscriptLen

process_lecture_stream(memory, cookie, body) ==
    LET kl == Get(body.knowledge_level, Number(0))
        session_id == IF Truthy(cookie) THEN cookie ELSE body.session_id
    IN  IF body.use_memory
        THEN IF ~Truthy(session_id) \/ session_id[1] \notin DOMAIN memory
             THEN Reraised
             ELSE LET text == memory[session_id[1]].combined_text
                  IN  IF too_short(text) THEN Reraised
                      ELSE StreamingResponse(text, kl)
        ELSE LET text == Get(body.transcript, <<>>)
             IN  IF too_short(text) THEN Reraised
                 ELSE StreamingResponse(text, kl)

\* The requests sent: a transcript of exactly MinTranscriptLen characters
\* after trimming, one a character short, or none; memory or not; and the
\* knowledge levels 0.19, 0.2, 0.4, 0.6, 0.99 and 1.0, a JSON null, or none.
LongTranscript == <<" ">> \o [i \in 1..MinTranscriptLen |-> "x"] \o <<NL>>
ShortTranscript == <<" ">> \o [i \in 1..(MinTranscriptLen - 1) |-> "x"] \o <<NL>>
Transcripts == {None, Some(ShortTranscript), Some(LongTranscript)}
KnowledgeLevels == {None, Some(JsonNull)} \cup {Some(Number(n)) : n \in {19, 20, 40, 60, 99, 100}}

StreamBodies ==
    {StreamBody(m, t, k, None) : m \in BOOLEAN, t \in Transcripts, k \in KnowledgeLevels}

\* The handler answers; with a StreamingResponse the server starts to
\* iterate safe_stream_wrapper(), whose generator is created on its first
\* step.
ProcessStreamOf(cookies, bodies) ==
    /\ pc = "idle"
    /\ \E cookie \in cookies, body \in bodies :
          LET out == process_lecture_stream(lecture_memory, cookie, body)
          IN  /\ last' = [op |-> "process_stream", status |-> out.status,
                          held |-> Held(lecture_memory, cookie)]
              /\ IF out.status = 200
                 THEN /\ knowledge_level' = out.knowledge_level
                      /\ transcript' = out.transcript
                      /\ pc' = "created"
                      /\ wrapper' = "next"
                 ELSE UNCHANGED <<knowledge_level, transcript, pc, wrapper>>
    /\ UNCHANGED <<upload_vars, lecture_memory, minted, level, chunk, disconnected, delivered, generated, opened>>

ProcessStream == ProcessStreamOf(Cookies(minted), StreamBodies)

\* The generator runs to a yield and suspends there with the event.
Yield(at, lvl, event) ==
    /\ pc' = at
    /\ level' = lvl
    /\ chunk' = Some(event)
    /\ wrapper' = "check"

\* An exception inside the generator's try block: its except clause yields
\* one error event.
Raise(message) == Yield("error", level, error_event(message))

\* for level in range(start_level, 5): the loop takes lvl and yields its
\* level_start, or is over and the generator yields complete.
next_level_same(lvl) == lvl
next_level(lvl) == lvl + 1

Loop(lvl) ==
    IF lvl >= 5 THEN Yield("complete", level, complete_event)
    ELSE IF level_info_raises(lvl) THEN Yield("error", lvl, error_event(IndexError))
    ELSE Yield("level_start", lvl, level_start_event(lvl))

\* safe_stream_wrapper asks the generator for its next chunk: the generator
\* runs from where it is suspended to its next yield, or to its end.
Enter ==
    /\ wrapper = "next" /\ pc = "created"
    /\ IF start_level_raises(knowledge_level) THEN Raise(TypeError)
       ELSE Yield("test", level, test_event)
    /\ UNCHANGED <<upload_vars, store_vars, knowledge_level, transcript, disconnected, delivered, generated, opened>>

StartLoop ==
    /\ wrapper = "next" /\ pc = "test"
    /\ Loop(start_level(knowledge_level))
    /\ UNCHANGED <<upload_vars, store_vars, knowledge_level, transcript, disconnected, delivered, generated, opened>>

\* with anthropic_client.messages.stream(...) as stream: the request for
\* the tier's text goes out, whatever request.is_disconnected() would say.
\* anthropic_client is the synchronous client: the call, and every read of
\* text_stream, is made by the event loop's thread, which is inside the call
\* ("reading") until the API answers.
OpenStream ==
    /\ wrapper = "next" /\ pc = "level_start"
    /\ opened' = Append(opened, [level |-> level, signalled |-> disconnected,
                                 transcript |-> transcript])
    /\ wrapper' = "reading"
    /\ UNCHANGED <<upload_vars, store_vars, knowledge_level, transcript, pc, level, chunk, disconnected, delivered, generated>>

NextText ==
    /\ wrapper = "next" /\ pc = "content"
    /\ wrapper' = "reading"
    /\ UNCHANGED <<upload_vars, store_vars, knowledge_level, transcript, pc, level, chunk, disconnected, delivered, generated, opened>>

\* for text in stream.text_stream: the API answers with the next fragment,
\* the end of the tier's text, or an error.
ReadStream ==
    /\ wrapper = "reading"
    /\ \/ /\ Len(generated[level]) < MaxFragments
          /\ LET text == Fragment(level, Len(generated[level]) + 1)
             IN  /\ generated' = [generated EXCEPT ![level] = Append(@, text)]
                 /\ Yield("content", level, content_event(level, text))
       \/ /\ generated' = generated
          /\ Loop(next_level(level))
       \/ /\ generated' = generated
          /\ Raise(APIError)
    /\ UNCHANGED <<upload_vars, store_vars, knowledge_level, transcript, disconnected, delivered, opened>>

\* After complete, or after the error event, the generator returns and the
\* wrapper's "async for" is over.
Return ==
    /\ wrapper = "next" /\ pc \in {"complete", "error"}
    /\ pc' = "done"
    /\ wrapper' = "finished"
    /\ UNCHANGED <<upload_vars, store_vars, knowledge_level, transcript, level, chunk, disconnected, delivered, generated, opened>>

\* await request.is_disconnected()
is_disconnected_never(flag) == FALSE
is_disconnected(flag) == flag

\* yield chunk
yield_chunk_twice(events, event) == Append(Append(events, event), event)
yield_chunk(events, event) == Append(events, event)

\* The wrapper has a chunk: it polls the connection and either breaks out of
\* its loop or yields the chunk to the client.
Check ==
    /\ wrapper = "check"
    /\ IF is_disconnected(disconnected)
       THEN /\ wrapper' = "stopped"
            /\ delivered' = delivered
       ELSE /\ wrapper' = "next"
            /\ delivered' = yield_chunk(delivered, chunk[1])
    /\ chunk' = None
    /\ UNCHANGED <<upload_vars, store_vars, knowledge_level, transcript, pc, level, disconnected, generated, opened>>

\* The client goes away while its stream is being served.
Disconnect ==
    /\ wrapper \in {"next", "reading", "check"}
    /\ ~disconnected
    /\ disconnected' = TRUE
    /\ UNCHANGED <<upload_vars, store_vars, knowledge_level, transcript, pc, level, chunk, wrapper, delivered, generated, opened>>

NextStream ==
    \/ ProcessStream
    \/ Enter \/ StartLoop \/ OpenStream \/ NextText \/ ReadStream \/ Return
    \/ Check
    \/ Disconnect

SpecStream == Init /\ [][NextStream]_vars

\* The run under the scheduling of the event loop: the server keeps
\* iterating the wrapper, a suspended generator that is asked for its next
\* chunk runs, and the API answers every read (with a fragment, the end of
\* the text or an error).
RunFairness ==
    /\ WF_vars(Enter) /\ WF_vars(StartLoop)
    /\ WF_vars(OpenStream) /\ WF_vars(NextText) /\ WF_vars(ReadStream)
    /\ WF_vars(Return) /\ WF_vars(Check)

SpecStreamFair == Init /\ [][NextStream]_vars /\ RunFairness

\* The runs of requests whose knowledge_level is outside [0.0, 1.0]:
\* -1.25, -0.2 and 1.5.
OutsideLevels == {Some(Number(n)) : n \in {-125, -20, 150}}
OutsideBodies == {StreamBody(FALSE, Some(LongTranscript), k, None) : k \in OutsideLevels}

StreamOutside == ProcessStreamOf({None}, OutsideBodies)

NextLevels ==
    \/ StreamOutside
    \/ Enter \/ StartLoop \/ OpenStream \/ NextText \/ ReadStream \/ Return
    \/ Check
    \/ Disconnect

SpecLevels == Init /\ [][NextLevels]_vars

(***************************************************************************)
(* The event loop with a summary run and the memory endpoints of one       *)
(* session.  All handlers are coroutines of the one event loop: while its  *)
(* thread is inside a synchronous call of the generator, no handler runs.  *)
(***************************************************************************)
LoopFree == wrapper # "reading"

\* The requests of the session's browser: its cookie, plain text to add,
\* the first source to remove, and a summary of its memory from level 0.6.
LoopCookies == {Some(i) : i \in ClientIds}
LoopBodies == {StreamBody(TRUE, None, Some(Number(60)), None)}
PlainBody == Body(PlainContent[1], PlainContent[2], PlainContent[3], None)

AddLoop ==
    /\ LoopFree
    /\ TotalSources(lecture_memory) < MaxSources
    /\ \E cookie \in LoopCookies :
          Handled("add", None, add_to_memory(lecture_memory, minted, cookie, PlainBody))

GetLoop ==
    /\ LoopFree
    /\ \E cookie \in LoopCookies :
          Handled("get", cookie, get_memory(lecture_memory, minted, cookie))

RemoveLoop ==
    /\ LoopFree
    /\ \E cookie \in LoopCookies :
          Handled("remove", cookie, remove_from_memory(lecture_memory, minted, cookie, 0))

ClearLoop ==
    /\ LoopFree
    /\ \E cookie \in LoopCookies :
          Handled("clear", cookie, clear_memory(lecture_memory, minted, cookie))

StreamLoop == LoopFree /\ ProcessStreamOf(LoopCookies, LoopBodies)

NextLoop ==
    \/ AddLoop \/ GetLoop \/ RemoveLoop \/ ClearLoop
    \/ StreamLoop
    \/ Enter \/ StartLoop \/ OpenStream \/ NextText \/ ReadStream \/ Return
    \/ Check
    \/ Disconnect

SpecLoop == Init /\ [][NextLoop]_vars

(***************************************************************************)
(* POST /upload_audio_stream: generate() of upload_audio_stream, which     *)
(* iterates transcriber.transcribe_audio_streaming                         *)
(* (src/audio_transcription.py).                                           *)
(***************************************************************************)
\* Segments a local transcription returns at most.
MaxSegments == 3

\* FileValidator.validate_audio: the suffixes accepted and the sizes, in
\* bytes, a file may have.
AUDIO_FORMATS == {".mp3", ".wav", ".m4a"}
MinAudioSize == 1000
MaxAudioSize == 209715200

AudioFile(suffix, size) == [suffix |-> suffix, size |-> size]
AudioFiles ==
    {AudioFile(x, n) : x \in {".mp3", ".txt"},
                       n \in {MinAudioSize - 1, MinAudioSize, MaxAudioSize, MaxAudioSize + 1}}

validate_audio_raises(file) ==
    \/ file.suffix \notin AUDIO_FORMATS
    \/ file.size > MaxAudioSize
    \/ file.size < MinAudioSize

\* A segment of the transcription result is modelled by its distance from
\* the end of the segment before it (start_time - last_end_time), in tenths
\* of a second; its text and timestamp are left out.
NaturalBreak == 15
ParagraphBreak == 30
Pauses == {0, NaturalBreak, ParagraphBreak, ParagraphBreak + 1}

RECURSIVE SeqsUpTo(_, _)
SeqsUpTo(S, n) ==
    IF n = 0 THEN {<<>>}
    ELSE LET shorter == SeqsUpTo(S, n - 1)
         IN  shorter \cup {Append(q, x) : q \in shorter, x \in S}

Results == SeqsUpTo(Pauses, MaxSegments)

\* The events of the stream: json.dumps of a dict with the key status.
status_event(status) ==
    [status |-> status, segment_index |-> None, total_segments |-> None,
     is_natural_break |-> None, is_paragraph_break |-> None]

segment_event(i, pause, total) ==
    [status |-> "segment", segment_index |-> Some(i), total_segments |-> Some(total),
     is_natural_break |-> Some(pause >= NaturalBreak \/ i = 0),
     is_paragraph_break |-> Some(pause > ParagraphBreak)]

\* generate() yields an event and is suspended there, or has ended.
Emit(at, event) ==
    /\ upload_pc' = at
    /\ upload_events' = Append(upload_events, event)

UploadAudio ==
    /\ upload_pc = "idle"
    /\ Emit("uploading", status_event("uploading"))
    /\ UNCHANGED <<store_vars, run_vars, whisper_mode, segments, segment_i>>

\* audio_bytes = await FileValidator.validate_audio(file): an HTTPException
\* goes to "except HTTPException", which yields the error event.
Validate ==
    /\ upload_pc = "uploading"
    /\ \E file \in AudioFiles :
          IF validate_audio_raises(file)
          THEN Emit("done", status_event("error"))
          ELSE Emit("validating", status_event("validating"))
    /\ UNCHANGED <<store_vars, run_vars, whisper_mode, segments, segment_i>>

Transcribing ==
    /\ upload_pc = "validating"
    /\ Emit("transcribing", status_event("transcribing"))
    /\ UNCHANGED <<store_vars, run_vars, whisper_mode, segments, segment_i>>

\* transcribe_audio_streaming in API mode: the whole text, then complete;
\* an exception of _transcribe_with_api reaches generate()'s except clause.
TranscribeApi ==
    /\ upload_pc = "transcribing" /\ whisper_mode = "api"
    /\ \/ Emit("done", status_event("complete"))
       \/ Emit("done", status_event("error"))
    /\ UNCHANGED <<store_vars, run_vars, whisper_mode, segments, segment_i>>

\* _transcribe_local_streaming: the model transcribes the file; an exception
\* is yielded as {"type": "error"}, for which generate() raises.  A result
\* with segments starts the loop; a result without segments yields nothing.
TranscribeLocal ==
    /\ upload_pc = "transcribing" /\ whisper_mode = "local"
    /\ \/ /\ Emit("done", status_event("error"))
          /\ UNCHANGED <<segments, segment_i>>
       \/ \E result \in Results :
             /\ segments' = result
             /\ segment_i' = 0
             /\ IF result # <<>>
                THEN Emit("segment", segment_event(0, result[1], Len(result)))
                ELSE upload_pc' = "done" /\ upload_events' = upload_events
    /\ UNCHANGED <<store_vars, run_vars, whisper_mode>>

\* for i, segment in enumerate(result["segments"]): the next segment, or
\* after the last one {"type": "complete"}.
NextSegment ==
    /\ upload_pc = "segment"
    /\ IF segment_i + 1 < Len(segments)
       THEN /\ segment_i' = segment_i + 1
            /\ Emit("segment", segment_event(segment_i + 1, segments[segment_i + 2], Len(segments)))
       ELSE /\ segment_i' = segment_i
            /\ Emit("done", status_event("complete"))
    /\ UNCHANGED <<store_vars, run_vars, whisper_mode, segments>>

WhisperModes == {"api", "local"}

InitAudio ==
    /\ lecture_memory = [i \in {} |-> EmptyMemory]
    /\ minted = {}
    /\ last = [op |-> "none", status |-> 0, held |-> 0]
    /\ NoRun
    /\ NoUpload
    /\ whisper_mode \in WhisperModes

NextAudio ==
    \/ UploadAudio \/ Validate \/ Transcribing
    \/ TranscribeApi \/ TranscribeLocal \/ NextSegment

SpecAudio == InitAudio /\ [][NextAudio]_vars

(***************************************************************************)
(* The combined text as the data model describes it: for the source at     *)
(* 1-based position k the block "=== Source k: <kind label> - <label> ===",*)
(* a blank line, the body and a trailing blank line; blocks joined by a    *)
(* newline.  Built from the last source backwards.                         *)
(***************************************************************************)
KindLabel(kind) ==
    IF kind = "text" THEN TextInput
    ELSE IF kind = "pdf" THEN PDFDocument
    ELSE IF kind = "audio" THEN AudioTranscription
    ELSE UnknownSource

LabeledBlock(k, source) ==
    HeaderOpen \o IntToStr(k) \o HeaderSep \o KindLabel(source.type) \o LabelSep
        \o source.filename \o HeaderClose \o <<NL>> \o <<NL>> \o source.text
        \o <<NL>> \o <<NL>>

RECURSIVE Rebuilt(_)
Rebuilt(sources) ==
    IF Len(sources) = 0 THEN <<>>
    ELSE IF Len(sources) = 1 THEN LabeledBlock(1, sources[1])
    ELSE Rebuilt(SubSeq(sources, 1, Len(sources) - 1)) \o <<NL>>
            \o LabeledBlock(Len(sources), sources[Len(sources)])

\* The sources of a session in a store, none when the session is not there.
SourcesOf(memory, id) ==
    IF id \in DOMAIN memory THEN memory[id].sources ELSE <<>>

\* Every request of each endpoint that a client can send in the current state.
AddOutcome(r) == add_to_memory(lecture_memory, minted, AddCookie(r), AddBody(r))
GetOutcome(cookie) == get_memory(lecture_memory, minted, cookie)
RemoveOutcome(cookie, index) ==
    remove_from_memory(lecture_memory, minted, cookie, index)
ClearOutcome(cookie) == clear_memory(lecture_memory, minted, cookie)

(***************************************************************************)
(* C1.  In every reachable state each session's combined_text equals the   *)
(* text rebuilt from its current sources in order (blocks numbered from 1, *)
(* kind label "Unknown Source" for any kind other than text, pdf, audio);  *)
(* a session with no sources has empty combined_text.                      *)
(* Violated by the code: a source whose source_type is a JSON array is     *)
(* appended before the rebuild loop raises TypeError on it.                *)
(***************************************************************************)
C1_CombinedTextIsRebuilt ==
    \A id \in DOMAIN lecture_memory :
        lecture_memory[id].combined_text = Rebuilt(lecture_memory[id].sources)

(***************************************************************************)
(* C2.  A successful add appends its source at the end of the session's    *)
(* sources and changes no earlier element, the source_count it returns is  *)
(* the new length (k after the k-th successful add to a fresh session),    *)
(* and a get in between returns those sources and changes nothing.         *)
(***************************************************************************)
C2_AddAppendsInOrder ==
    \A r \in AddRequests(minted) :
        LET out == AddOutcome(r)
            id == out.response.session_id[1]
            before == SourcesOf(lecture_memory, id)
            after == SourcesOf(out.memory, id)
            seen == get_memory(out.memory, out.minted, Some(id))
        IN out.response.status = 200 =>
              /\ Len(after) = Len(before) + 1
              /\ \A k \in 1..Len(before) : after[k] = before[k]
              /\ after[Len(after)] = out.response.source[1]
              /\ out.response.source[1].text = strip(Get(AddBody(r).text, <<>>))
              /\ out.response.source_count = Len(before) + 1
              /\ seen.response.sources = after
              /\ seen.response.source_count = Len(before) + 1
              /\ seen.memory = out.memory

\* A second source was added to a session: the store holds that one session,
\* with two sources, right after a successful add.
C2_Witness ==
    /\ last.op = "add" /\ last.status = 200
    /\ \E id \in DOMAIN lecture_memory :
          /\ DOMAIN lecture_memory = {id}
          /\ Len(lecture_memory[id].sources) = 2
          /\ lecture_memory[id].sources[1] # lecture_memory[id].sources[2]

EmptyResult(response) ==
    /\ response.status = 200
    /\ response.sources = <<>>
    /\ response.combined_text = <<>>
    /\ response.source_count = 0

C4_ClearThenFresh ==
    \A cookie \in Cookies(minted) :
        Held(lecture_memory, cookie) >= 1 =>
           LET cleared == ClearOutcome(cookie)
               seen == get_memory(cleared.memory, cleared.minted, cookie)
           IN /\ EmptyResult(seen.response)
              /\ \A c \in Contents :
                    LET added == add_to_memory(cleared.memory, cleared.minted,
                                               cookie, Body(c[1], c[2], c[3], None))
                        now == SourcesOf(added.memory, cookie[1])
                    IN /\ added.response.status = 200 =>
                             /\ added.response.source_count = 1
                             /\ now = added.response.source
                             /\ added.memory[cookie[1]].combined_text = Rebuilt(now)
                       /\ added.response.status # 400 =>
                             /\ Len(now) = 1
                             /\ now[1].text = strip(Get(c[1], <<>>))
                       /\ added.response.status = 400 =>
                             cookie[1] \notin DOMAIN added.memory

\* A session that held sources has just been cleared.
C4_Witness ==
    /\ last.op = "clear" /\ last.status = 200 /\ last.held = MaxSources
    /\ lecture_memory = [i \in {} |-> EmptyMemory]

(***************************************************************************)
(* C5.  add fails with the validation error (400) exactly when the body,   *)
(* with its surrounding whitespace trimmed, has fewer than 10 characters   *)
(* (9 rejected, 10 accepted), and every stored source has a body of at     *)
(* least 10 characters.                                                    *)
(***************************************************************************)
\* The positions of the characters of s that are not whitespace.
Inked(s) == {k \in 1..Len(s) : s[k] \notin Whitespace}

\* The length of s between its first and last non-whitespace character.
TrimmedLen(s) ==
    LET ink == Inked(s)
    IN IF ink = {} THEN 0
       ELSE LET first == CHOOSE k \in ink : \A j \in ink : k <= j
                final == CHOOSE k \in ink : \A j \in ink : k >= j
            IN final - first + 1

C5_TenCharacterMinimum ==
    /\ \A c \in Contents :
          LET short == TrimmedLen(Get(c[1], <<>>)) < 10
          IN \A r \in AddRequests(minted) :
                r[2] = c => ((AddOutcome(r).response.status = 400) <=> short)
    /\ \A id \in DOMAIN lecture_memory :
          \A k \in 1..Len(lecture_memory[id].sources) :
              Len(lecture_memory[id].sources[k].text) >= 10

\* A body of 10 characters is stored and the last add, of a shorter body,
\* was rejected.
C5_Witness ==
    /\ last.op = "add" /\ last.status = 400
    /\ \E id \in DOMAIN lecture_memory :
          \E k \in 1..Len(lecture_memory[id].sources) :
              Len(lecture_memory[id].sources[k].text) = 10

(***************************************************************************)
(* C6.  remove fails with not-found (404) when the session is unknown and  *)
(* with the index-range error (400) when the index is outside              *)
(* [0, len(sources)); every index inside the range succeeds, in particular *)
(* len(sources) - 1.                                                       *)
(* Violated by the code: on a session that holds a source whose type is a  *)
(* JSON array (see C1) a remove with a valid index answers 500.            *)
(***************************************************************************)
C6_RemoveErrors ==
    \A cookie \in Cookies(minted), i \in Indexes :
        LET status == RemoveOutcome(cookie, i).response.status
            known == cookie # None /\ cookie[1] \in DOMAIN lecture_memory
            n == Len(SourcesOf(lecture_memory, cookie[1]))
        IN /\ ~known => status = 404
           /\ known /\ (i < 0 \/ i >= n) => status = 400
           /\ known /\ 0 <= i /\ i < n => status = 200

(***************************************************************************)
(* C7.  add resolves its target session: with no session id supplied a new *)
(* id is minted and a new memory created under it; with a supplied id that *)
(* is not in the store a new memory is created under exactly that id; with *)
(* a supplied id that is in the store the existing memory is used.  The    *)
(* returned session_id names the session whose last source is the one just *)
(* added.                                                                  *)
(***************************************************************************)
\* The non-empty session ids a request carries, in its cookie or its body.
SuppliedIds(cookie, body) ==
    {x[1] : x \in {y \in {cookie, body.session_id} : y # None /\ y[1] # ""}}

C7_AddResolvesSession ==
    \A r \in AddRequests(minted) :
        LET out == AddOutcome(r)
            supplied == SuppliedIds(AddCookie(r), AddBody(r))
            touched == {i \in DOMAIN out.memory :
                           i \notin DOMAIN lecture_memory
                              \/ out.memory[i] # lecture_memory[i]}
        IN out.response.status # 400 =>
              \E t \in DOMAIN out.memory :
                 /\ touched = {t}
                 /\ DOMAIN out.memory = DOMAIN lecture_memory \cup {t}
                 /\ supplied = {} =>
                       /\ t \notin DOMAIN lecture_memory
                       /\ t \notin KnownIds(minted)
                       /\ Len(out.memory[t].sources) = 1
                 /\ supplied # {} =>
                       /\ t \in supplied
                       /\ out.minted = minted
                 /\ t \notin DOMAIN lecture_memory =>
                       Len(out.memory[t].sources) = 1
                 /\ t \in DOMAIN lecture_memory =>
                       SubSeq(out.memory[t].sources, 1,
                              Len(lecture_memory[t].sources))
                          = lecture_memory[t].sources
                 /\ out.response.status = 200 =>
                       /\ out.response.session_id = <<t>>
                       /\ out.memory[t].sources[Len(out.memory[t].sources)]
                             = out.response.source[1]

\* A minted session and a session created under a client's own id, each
\* holding the one source added to it.
C7_Witness ==
    /\ last.op = "add" /\ last.status = 200
    /\ minted # {}
    /\ \A id \in ClientIds \cup minted :
          /\ id \in DOMAIN lecture_memory
          /\ Len(lecture_memory[id].sources) = 1

(***************************************************************************)
(* C8.  get on an absent, empty or unknown session id never fails: it      *)
(* answers success with no sources, empty combined_text, source_count 0.   *)
(***************************************************************************)
C8_GetUnknownIsEmpty ==
    \A cookie \in Cookies(minted) \cup {Some("nobody")} :
        (cookie = None \/ cookie[1] \notin DOMAIN lecture_memory) =>
            EmptyResult(GetOutcome(cookie).response)

\* A get was answered while the store, after a session had been created and
\* cleared, knew no session at all.
C8_Witness ==
    /\ last.op = "get" /\ last.status = 200
    /\ DOMAIN lecture_memory = {}
    /\ minted # {}

(***************************************************************************)
(* C9.  get never changes the store (no entry is created for an unknown    *)
(* id, no sources or combined_text altered), so a get repeated with no     *)
(* add, remove or clear in between returns the same sources, combined_text *)
(* and source_count.                                                       *)
(***************************************************************************)
C9_GetChangesNothing ==
    \A cookie \in Cookies(minted) \cup {Some("nobody")} :
        LET first == GetOutcome(cookie)
            again == get_memory(first.memory, first.minted, cookie)
        IN /\ first.memory = lecture_memory
           /\ DOMAIN first.memory = DOMAIN lecture_memory
           /\ first.minted = minted
           /\ again.response = first.response
           /\ again.memory = lecture_memory

\* A get was answered for a session that holds sources.
C9_Witness ==
    /\ last.op = "get" /\ last.status = 200 /\ last.held >= 1
    /\ \E id \in DOMAIN lecture_memory :
          Len(lecture_memory[id].sources) = last.held

(***************************************************************************)
(* C10.  clear never fails: for a known session it deletes the whole entry *)
(* (sources and combined_text together) and nothing else; for an absent or *)
(* unknown session id it leaves the store unchanged and reports success.   *)
(***************************************************************************)
C10_ClearNeverFails ==
    \A cookie \in Cookies(minted) \cup {Some("nobody")} :
        LET out == ClearOutcome(cookie)
            known == cookie # None /\ cookie[1] \in DOMAIN lecture_memory
        IN /\ out.response.status = 200
           /\ known =>
                 /\ DOMAIN out.memory = DOMAIN lecture_memory \ {cookie[1]}
                 /\ \A i \in DOMAIN out.memory : out.memory[i] = lecture_memory[i]
           /\ ~known => out.memory = lecture_memory

\* A known session holding a source was cleared while another session, left
\* as it was, is still in the store.
C10_Witness ==
    /\ last.op = "clear" /\ last.status = 200 /\ last.held >= 1
    /\ \E id \in DOMAIN lecture_memory : Len(lecture_memory[id].sources) >= 1

(***************************************************************************)
(* The summary stream: what the claims speak of.                           *)
(***************************************************************************)
\* The run is over: the generator returned (Finished), or the wrapper saw
\* the disconnect and broke out of its loop (Cancelled).
Finished == wrapper = "finished"
Cancelled == wrapper = "stopped"

Numeric == knowledge_level.number

\* Positions of the delivered events of a type, and of a type and tier.
Of(type) == {i \in DOMAIN delivered : delivered[i].type = type}
OfTier(type, lvl) == {i \in Of(type) : delivered[i].level = Some(lvl)}
Tagged == {i \in DOMAIN delivered : delivered[i].level # None}

\* floor(n/100 * 5) capped at 4, from the definition of floor.
Hundredths == 0..100
Floor5(n) == CHOOSE s \in 0..5 : s * 100 <= n * 5 /\ n * 5 < (s + 1) * 100
StartTier(n) == IF Floor5(n) > 4 THEN 4 ELSE Floor5(n)

(***************************************************************************)
(* C11.  When a tier's generation stream fails, the run emits an error     *)
(* event that carries the tier's level and goes on with the next tier: a   *)
(* run that ends without being cancelled has delivered level_start for     *)
(* every tier from its start tier to 4.                                    *)
(* Violated by the code: the loop over the tiers is inside one try block,  *)
(* so the first failure ends the loop, and the error event has no level.   *)
(***************************************************************************)
C11_FailureIsIsolated ==
    (Finished /\ Numeric) =>
        /\ \A i \in Of("error") : delivered[i].level # None
        /\ \A lvl \in start_level(knowledge_level)..4 : OfTier("level_start", lvl) # {}

(***************************************************************************)
(* C12.  A run that is not cancelled delivers exactly one complete event,  *)
(* as its last event, however many tiers failed.                           *)
(* Violated by the code: after a tier's failure the generator yields the   *)
(* error event and returns without yielding complete.                      *)
(***************************************************************************)
C12_CompleteIsLast ==
    (Finished /\ Numeric) =>
        /\ Cardinality(Of("complete")) = 1
        /\ delivered[Len(delivered)] = complete_event

(***************************************************************************)
(* C13.  A run that delivers any event delivers exactly one test event,    *)
(* and delivers it first.                                                  *)
(* Violated by the code: start_level is computed inside the try block      *)
(* before the test event is yielded, and for a knowledge_level that is a   *)
(* JSON null the multiplication raises, so the run's only event is error.  *)
(***************************************************************************)
C13_TestIsFirst ==
    delivered # <<>> =>
        /\ delivered[1] = test_event
        /\ Of("test") = {1}

(***************************************************************************)
(* C14.  For a knowledge_level in [0.0, 1.0] the start tier is             *)
(* floor(knowledge_level * 5) capped at 4; level_start and content events  *)
(* are delivered, and tier streams opened, only for tiers from the start   *)
(* tier to 4; and a run that ends uncancelled and without an error has     *)
(* delivered level_start for each of those tiers.                          *)
(***************************************************************************)
C14_StartTierBoundsTheRun ==
    /\ \A n \in Hundredths : start_level(Number(n)) = StartTier(n)
    /\ (Numeric /\ knowledge_level.hundredths \in Hundredths) =>
          LET start == StartTier(knowledge_level.hundredths)
          IN  /\ \A i \in Tagged : delivered[i].level[1] \in start..4
              /\ \A i \in DOMAIN opened : opened[i].level \in start..4
              /\ (Finished /\ Of("error") = {}) =>
                    \A lvl \in start..4 : OfTier("level_start", lvl) # {}

\* knowledge_level 0.4: the run ended with test, level_start(2), ...,
\* complete and no failure.
C14_Witness ==
    /\ Finished
    /\ knowledge_level = Number(40)
    /\ Of("error") = {}
    /\ delivered[2] = level_start_event(2)
    /\ OfTier("level_start", 0) = {} /\ OfTier("level_start", 1) = {}
    /\ delivered[Len(delivered)] = complete_event

(***************************************************************************)
(* C15.  level_start(L) is delivered at most once for each tier L, and     *)
(* before every content event of tier L.                                   *)
(***************************************************************************)
C15_LevelStartPrecedesContent ==
    /\ \A lvl \in Tiers : Cardinality(OfTier("level_start", lvl)) <= 1
    /\ \A i \in Of("content") :
          \E j \in OfTier("level_start", delivered[i].level[1]) : j < i

\* level_start(3), then a content event of tier 3, have been delivered.
C15_Witness ==
    \E i \in OfTier("content", 3) : \E j \in OfTier("level_start", 3) : j < i

\* The fragments of the delivered content events tagged with a tier, in the
\* order of delivery.
RECURSIVE TextsOf(_, _)
TextsOf(events, lvl) ==
    IF events = <<>> THEN <<>>
    ELSE LET e == events[Len(events)]
             before == TextsOf(SubSeq(events, 1, Len(events) - 1), lvl)
         IN  IF e.type = "content" /\ e.level = Some(lvl)
             THEN Append(before, e.text[1])
             ELSE before

\* The generator is suspended with a content event of the tier that the
\* wrapper has not yet polled for.
Held1(lvl) ==
    IF chunk # None /\ chunk[1].type = "content" /\ chunk[1].level = Some(lvl)
    THEN 1 ELSE 0

(***************************************************************************)
(* C16.  The content events delivered for a tier carry the fragments of    *)
(* that tier's text_stream, in order, each once and under the tier's own   *)
(* tag: they are a prefix of the fragments generated, the whole of them    *)
(* but for a fragment the wrapper still holds, unless the run is cancelled *)
(* (then the fragment held at the break is the only one not delivered).    *)
(***************************************************************************)
C16_ContentIsThePrefixGenerated ==
    /\ \A i \in Of("content") : delivered[i].level[1] \in Tiers
    /\ \A lvl \in Tiers :
          LET texts == TextsOf(delivered, lvl)
              missing == Len(generated[lvl]) - Len(texts)
          IN  /\ Len(texts) <= Len(generated[lvl])
              /\ texts = SubSeq(generated[lvl], 1, Len(texts))
              /\ IF Cancelled THEN missing \in {0, 1} ELSE missing = Held1(lvl)

\* Tier 2 produced MaxFragments fragments, all delivered, and tier 3 has
\* begun.
C16_Witness ==
    /\ Len(generated[2]) = MaxFragments
    /\ TextsOf(delivered, 2) = generated[2]
    /\ OfTier("level_start", 3) # {}

(***************************************************************************)
(* C17.  Tiers are processed in ascending order, one at a time: the level  *)
(* tags of the delivered events never decrease, every event of tier L      *)
(* comes before level_start(L+1), and the stream of a tier is requested at *)
(* most once (the tiers of the requests issued strictly increase).         *)
(***************************************************************************)
C17_TiersAscend ==
    /\ \A i, j \in Tagged : i < j => delivered[i].level[1] <= delivered[j].level[1]
    /\ \A lvl \in Tiers : \A j \in OfTier("level_start", lvl + 1) :
          \A i \in Tagged : delivered[i].level[1] = lvl => i < j
    /\ \A i, j \in DOMAIN opened : i < j => opened[i].level < opened[j].level

\* A finished run that requested tiers 2, 3 and 4, each once.
C17_Witness ==
    /\ Finished
    /\ Len(opened) = 3
    /\ opened[1].level = 2 /\ opened[2].level = 3 /\ opened[3].level = 4
    /\ OfTier("content", 2) # {} /\ OfTier("content", 3) # {}

(***************************************************************************)
(* C18.  The disconnect signal is polled before each event is delivered:   *)
(* no event is delivered in a step that starts with the client gone, once  *)
(* the wrapper has seen the signal nothing more is delivered, and such a   *)
(* run never delivers complete.                                            *)
(***************************************************************************)
C18_NothingAfterDisconnect ==
    [][/\ disconnected => delivered' = delivered
       /\ Cancelled => (Cancelled' /\ delivered' = delivered)
       /\ Cancelled' => Of("complete")' = {}]_vars

\* The client went away after level_start(2) was delivered and before any
\* content of tier 2: the first fragment of tier 2 was generated and never
\* delivered.
C18_Witness ==
    /\ Cancelled
    /\ delivered = <<test_event, level_start_event(2)>>
    /\ Len(generated[2]) = 1

(***************************************************************************)
(* C19.  Once the disconnect signal is raised the run issues no further    *)
(* request to the tier generator: no tier's stream is opened after the     *)
(* moment the signal fires.                                                *)
(* Violated by the code: the signal is polled only when the generator has  *)
(* yielded a chunk, and between the yield of level_start(L) and the next   *)
(* yield the generator opens tier L's stream without any poll.             *)
(***************************************************************************)
C19_NoRequestAfterSignal ==
    \A i \in DOMAIN opened : ~opened[i].signalled

(***************************************************************************)
(* C20.  Requests on one session take effect one after another (each       *)
(* handler's access to the store is one step of the event loop), and no    *)
(* request observes a combined_text that disagrees with sources: what a    *)
(* get returns, and the transcript a stream takes from memory, is the text *)
(* rebuilt from the session's sources.                                     *)
(* Violated by the code: after an add or a remove whose rebuild loop       *)
(* raised, sources has changed and combined_text has not.                  *)
(***************************************************************************)
C20_NoRequestSeesStaleText ==
    \A cookie \in Cookies(minted) :
        /\ LET response == GetOutcome(cookie).response
           IN  response.combined_text = Rebuilt(response.sources)
        /\ \A body \in {b \in StreamBodies : b.use_memory} :
              LET out == process_lecture_stream(lecture_memory, cookie, body)
              IN  out.status = 200 =>
                    out.transcript = Rebuilt(SourcesOf(lecture_memory, cookie[1]))

\* The sessions whose entry differs between two stores: created, deleted or
\* changed.
Touched(before, after) ==
    {i \in DOMAIN before \cup DOMAIN after :
        i \notin DOMAIN before \/ i \notin DOMAIN after \/ before[i] # after[i]}

(***************************************************************************)
(* C21.  add, remove and clear on one session leave every other session's  *)
(* entry as it was: a remove or a clear touches no session but the one its *)
(* cookie names, and an add touches one session at most, which is a new    *)
(* one or one the request names.                                           *)
(***************************************************************************)
C21_OtherSessionsUnchanged ==
    /\ \A r \in AddRequests(minted) :
          LET touched == Touched(lecture_memory, AddOutcome(r).memory)
          IN  /\ Cardinality(touched) <= 1
              /\ touched \subseteq SuppliedIds(AddCookie(r), AddBody(r))
                                      \cup (UuidPool \ minted)
    /\ \A cookie \in Cookies(minted) :
          /\ Touched(lecture_memory, ClearOutcome(cookie).memory) \subseteq SuppliedIds(cookie, [session_id |-> None])
          /\ \A index \in Indexes :
                Touched(lecture_memory, RemoveOutcome(cookie, index).memory) \subseteq SuppliedIds(cookie, [session_id |-> None])

\* A session that held sources was cleared while another session holds one.
C21_Witness ==
    /\ last.op = "clear" /\ last.held >= 1
    /\ \E id \in DOMAIN lecture_memory : Len(lecture_memory[id].sources) >= 1

(***************************************************************************)
(* C25.  A failed store operation leaves the whole store unchanged: an add *)
(* or a remove that is answered with an error status has created no       *)
(* session entry, minted no id, and changed no session's sources or        *)
(* combined_text.                                                          *)
(* Violated by the code: an add or a remove whose rebuild loop raises is   *)
(* answered 500 after sources was changed.                                 *)
(***************************************************************************)
C25_FailedOperationChangesNothing ==
    /\ \A r \in AddRequests(minted) :
          LET out == AddOutcome(r)
          IN  out.response.status >= 400 =>
                 out.memory = lecture_memory /\ out.minted = minted
    /\ \A cookie \in Cookies(minted), index \in Indexes :
          LET out == RemoveOutcome(cookie, index)
          IN  out.response.status >= 400 =>
                 out.memory = lecture_memory /\ out.minted = minted

\* The <<cookie id, body id>> pairs of a request that names two different
\* sessions.
TwoIds(uuids) == {p \in KnownIds(uuids) \X KnownIds(uuids) : p[1] # p[2]}

(***************************************************************************)
(* C24.  When a request carries a session id in its body and another in    *)
(* its cookie, the id of the body is the one used: an add answers with the *)
(* body's id and touches that session only, and a process_stream with      *)
(* use_memory is answered as if the cookie were not there.                 *)
(* Violated by the code: both handlers take the body's session_id only     *)
(* when the cookie is missing or empty.                                    *)
(***************************************************************************)
C24_BodyIdIsPreferred ==
    \A p \in TwoIds(minted) :
        /\ LET body == Body(Some(Core10), None, None, Some(p[2]))
               out == add_to_memory(lecture_memory, minted, Some(p[1]), body)
           IN  /\ out.response.session_id = Some(p[2])
               /\ Touched(lecture_memory, out.memory) = {p[2]}
        /\ LET body == StreamBody(TRUE, None, None, Some(p[2]))
           IN  process_lecture_stream(lecture_memory, Some(p[1]), body)
                  = process_lecture_stream(lecture_memory, None, body)

\* The sessions that hold a source and whose sources are all of a kind the
\* rebuild loop accepts (their combined_text is the rebuilt text).
Sound(memory) ==
    {id \in DOMAIN memory :
        /\ Len(memory[id].sources) >= 1
        /\ \A i \in DOMAIN memory[id].sources : Hashable(memory[id].sources[i].type)}

(***************************************************************************)
(* C29.  A process_stream request with use_memory for a session that holds *)
(* at least one source is never refused: the combined_text rebuilt from    *)
(* sources that add accepted has at least MinTranscriptLen characters      *)
(* after trimming.                                                         *)
(* Violated by the code: the header, a body of 10 characters and a label   *)
(* of at most one character make a combined_text of fewer than 50.         *)
(***************************************************************************)
C29_HeldMemoryIsLongEnough ==
    \A id \in Sound(lecture_memory) :
        /\ Len(strip(lecture_memory[id].combined_text)) >= MinTranscriptLen
        /\ process_lecture_stream(lecture_memory, Some(id), StreamBody(TRUE, None, None, None)).status = 200

(***************************************************************************)
(* C23.  process_stream answers 400, and starts no run, for a direct       *)
(* transcript of fewer than 50 characters after trimming, for a use_memory *)
(* request whose session is absent or unknown, and for a use_memory        *)
(* request whose combined_text has fewer than 50 characters after          *)
(* trimming: every request is answered 200 with a stream or 400, never     *)
(* with a 5xx status.                                                      *)
(* Violated by the code: the HTTPException(400) is raised inside the       *)
(* handler's try block, whose "except Exception" raises HTTPException(500) *)
(* in its place.                                                           *)
(***************************************************************************)
C23_InputErrorsAre400 ==
    \A cookie \in Cookies(minted), body \in StreamBodies :
        process_lecture_stream(lecture_memory, cookie, body).status \in {200, 400}

(***************************************************************************)
(* C22.  While a summary run waits for the next fragment of a tier's       *)
(* stream, other requests can take steps: a memory operation is not held   *)
(* up until the fragment arrives.                                          *)
(* Violated by the code: the generator reads the synchronous client's      *)
(* stream, so the wait is spent inside a call made by the event loop's     *)
(* thread and no other coroutine runs until the API answers.               *)
(***************************************************************************)
C22_WaitingRunLetsOthersStep ==
    wrapper = "reading" => ENABLED GetLoop

(***************************************************************************)
(* C28.  A run started with use_memory reads the session's combined_text   *)
(* once, when the request is accepted: the run's transcript is that text   *)
(* and never changes, every tier's request is made with it, and a step     *)
(* that changes the store (add, remove, clear) changes nothing of the run. *)
(***************************************************************************)
C28_RunKeepsItsTranscript ==
    [][/\ (pc = "idle" /\ pc' = "created") =>
             \E id \in DOMAIN lecture_memory : transcript' = lecture_memory[id].combined_text
       /\ pc # "idle" => transcript' = transcript
       /\ \A i \in DOMAIN opened' : opened'[i].transcript = transcript'
       /\ lecture_memory' # lecture_memory => UNCHANGED run_vars]_vars

\* The session was cleared while its run was streaming, and the request for
\* the next tier was made after that, with the transcript read at the start.
C28_Witness ==
    /\ wrapper = "reading" /\ pc = "level_start"
    /\ last.op = "clear"
    /\ DOMAIN lecture_memory = {}
    /\ Len(opened) = 2
    /\ opened[2].transcript = transcript /\ transcript # <<>>

(***************************************************************************)
(* C27.  For every numeric knowledge_level, also below 0.0 and above 1.0,  *)
(* the start tier is in [0, 4], every level of a level_start or content    *)
(* event is in [0, 4], and at most 5 tier streams are requested.           *)
(* Violated by the code: the start tier is capped at 4 but not at 0, and a *)
(* negative level indexes level_descriptions from its end.                 *)
(***************************************************************************)
C27_LevelsStayInRange ==
    (pc # "idle" /\ Numeric) =>
        /\ start_level(knowledge_level) \in Tiers
        /\ \A i \in Tagged : delivered[i].level[1] \in Tiers
        /\ Len(opened) <= 5

\* The positions of the terminal events delivered.
Terminal == Of("complete") \cup Of("error")

(***************************************************************************)
(* C26.  With tier streams that end or fail, every run ends: it is         *)
(* cancelled or its generator returns.  A run that is not cancelled has    *)
(* delivered exactly one terminal event, complete or error, as its last    *)
(* event, and delivers nothing after it.                                   *)
(***************************************************************************)
C26_RunEndsWithOneTerminalEvent ==
    /\ (pc = "created") ~> (Finished \/ Cancelled)
    /\ [](Finished => Terminal = {Len(delivered)})
    /\ [](Terminal \subseteq {Len(delivered)})
    /\ [][Finished => delivered' = delivered]_vars

\* A run ended with complete as its only terminal event, and another with
\* error.
C26_Witness ==
    /\ Finished
    /\ Terminal = {Len(delivered)}
    /\ delivered[Len(delivered)].type = "error"
    /\ Of("content") # {}

\* The positions of the upload stream's events with a status.
Status(status) == {i \in DOMAIN upload_events : upload_events[i].status = status}

(***************************************************************************)
(* C30.  Every audio transcription stream ends with exactly one terminal   *)
(* status event, complete or error, as its last event, in API mode, in     *)
(* local mode with and without segments, and when validation fails; the    *)
(* segment events come after transcribing and before complete, with        *)
(* segment_index counting up from 0.                                       *)
(* Violated by the code: in local mode a result without segments yields    *)
(* neither complete nor error, and the stream ends after transcribing.     *)
(***************************************************************************)
C30_UploadEndsWithOneTerminalEvent ==
    /\ upload_pc = "done" =>
          Status("complete") \cup Status("error") = {Len(upload_events)}
    /\ \A i \in Status("segment") :
          /\ \E j \in Status("transcribing") : j < i
          /\ \A j \in Status("complete") : i < j
          /\ upload_events[i].segment_index = Some(Cardinality({k \in Status("segment") : k < i}))

====
